---- MODULE Spec2Model ----
(***************************************************************************)
(* Model of app/old_app.py: the Entry / FTSEntry tables, Entry.save and    *)
(* its search-index hook, the query classmethods and the Flask views.      *)
(*                                                                         *)
(* Strings are sequences of one-character strings, so that lower-casing,   *)
(* splitting, the slug regular expression and the full-text tokenizer are  *)
(* computed character by character.                                        *)
(***************************************************************************)
EXTENDS Integers, Sequences, FiniteSets, TLC

\* ------------------------------------------------------------------ bounds
MaxEntries == 2      \* rows of the Entry table (TitleInputs derive two slugs)
NumProcs == 2        \* request threads saving concurrently (SpecConc)
MaxConcEntries == 1  \* rows of the Entry table in SpecConc
MaxTitleLen == 3     \* length of the titles slugs are derived from (SpecSlug)

\* ------------------------------------------------------- request inputs
ADMIN_PASSWORD == "secret"

Passwords == {"", "secret", "wrong"}
Methods == {"GET", "POST"}

\* values of request.form['title'] / ['content'] / ['published'];
\* <<>> is the missing or empty field
TitleInputs == {<<>>, <<"a">>, <<"A">>, <<"b">>}
ContentInputs == {<<>>, <<"x">>, <<"y">>}
PublishedInputs == {<<>>, <<"y">>}

\* values of request.args['q']
QueryInputs == {<<>>, <<" ">>, <<"\t", " ">>, <<"x">>, <<"A", " ", "x">>}

\* ------------------------------------------------------------- characters
UpperChars == {"A", "B", "X", "Y", "H", "W"}
LowerChars == {"a", "b", "x", "y", "h", "w", "e", "l", "o", "r", "d"}
DigitChars == {"1"}
\* str.isspace, the separators of str.split()
SpaceChars == {" ", "\t", "\n"}

\* str.lower on one character
LowerChar(c) ==
  CASE c = "A" -> "a"
    [] c = "B" -> "b"
    [] c = "X" -> "x"
    [] c = "Y" -> "y"
    [] c = "H" -> "h"
    [] c = "W" -> "w"
    [] OTHER -> c

\* the regular-expression class \w
WordChars == UpperChars \cup LowerChars \cup DigitChars \cup {"_"}
IsWordChar(c) == c \in WordChars

\* separator of the "simple" full-text tokenizer: anything not alphanumeric
AlnumChars == UpperChars \cup LowerChars \cup DigitChars
IsFtsSep(c) == c \notin AlnumChars

\* str.lower
RECURSIVE Lower(_)
Lower(s) == IF s = <<>> THEN <<>> ELSE <<LowerChar(Head(s))>> \o Lower(Tail(s))

\* re.sub('[^\w]', '-', s): every non-word character becomes a '-'
SubNonWordEach(s, inRun) ==
  [i \in DOMAIN s |-> IF IsWordChar(s[i]) THEN s[i] ELSE "-"]

\* re.sub('[^\w]+', '-', s): every maximal run of non-word characters
\* becomes one '-'
RECURSIVE SubNonWord(_, _)
SubNonWord(s, inRun) ==
  IF s = <<>> THEN <<>>
  ELSE IF IsWordChar(Head(s)) THEN <<Head(s)>> \o SubNonWord(Tail(s), FALSE)
  ELSE IF inRun THEN SubNonWord(Tail(s), TRUE)
  ELSE <<"-">> \o SubNonWord(Tail(s), TRUE)

Slugify(title) == SubNonWord(Lower(title), FALSE)

\* '\n'.join((title, content))
JoinNl(title, content) == title \o <<"\n">> \o content

\* words of s separated by runs of characters of seps; cur is the word
\* being read
RECURSIVE SplitOn(_, _, _)
SplitOn(s, seps, cur) ==
  IF s = <<>> THEN (IF cur = <<>> THEN <<>> ELSE <<cur>>)
  ELSE IF Head(s) \in seps
       THEN (IF cur = <<>> THEN <<>> ELSE <<cur>>) \o SplitOn(Tail(s), seps, <<>>)
       ELSE SplitOn(Tail(s), seps, cur \o <<Head(s)>>)

AllChars == UpperChars \cup LowerChars \cup DigitChars \cup SpaceChars \cup {"_", "-", "!"}

\* [word.strip() for word in query.split() if word.strip()]
Words(query) == SplitOn(query, SpaceChars, <<>>)

\* ' '.join(words)
RECURSIVE JoinSpace(_)
JoinSpace(ws) ==
  IF ws = <<>> THEN <<>>
  ELSE IF Len(ws) = 1 THEN ws[1]
  ELSE ws[1] \o <<" ">> \o JoinSpace(Tail(ws))

Range(f) == {f[i] : i \in DOMAIN f}

\* tokens the full-text index holds for a text: case-folded alphanumeric runs
FtsSeps == {c \in AllChars : IsFtsSep(c)}
FtsTokens(text) == Range(SplitOn(Lower(text), FtsSeps, <<>>))

\* FTSEntry.match(search): every term of the query is a token of the document
FtsMatch(content, search) ==
  /\ FtsTokens(search) # {}
  /\ FtsTokens(search) \subseteq FtsTokens(content)

\* ------------------------------------------------------------------ state
VARIABLES
  entries,      \* Entry table: id -> row
  fts,          \* FTSEntry table: docid -> row
  logged_in,    \* session['logged_in']
  clock,        \* datetime.datetime.now
  last,         \* the last request and its response
  procs         \* in-flight Entry.save calls of concurrent requests (SpecConc)

vars == <<entries, fts, logged_in, clock, last, procs>>

Ids == DOMAIN entries
DocIds == DOMAIN fts

\* documents of the index for one entry
DocsOf(id) == {d \in DocIds : fts[d].entry_id = id}

\* a request thread outside Entry.save
IdleProc == [pc |-> "idle", id |-> 0, title |-> <<>>, content |-> <<>>, doc |-> 0]

\* a request with its response, as the properties below read it
Resp(op, method, status) ==
  [op |-> op, method |-> method, status |-> status, err |-> "", id |-> 0,
   missing |-> FALSE, cleared |-> FALSE, password |-> "", has_q |-> FALSE,
   q |-> <<>>, rows |-> <<>>]

NoRequest == Resp("none", "", "none")

Init ==
  /\ entries = <<>>
  /\ fts = <<>>
  /\ logged_in = FALSE
  /\ clock = 0
  /\ last = NoRequest
  /\ procs = [p \in 1..NumProcs |-> IdleProc]

\* ------------------------------------------------------ Entry and FTSEntry
\* an Entry instance not yet stored has id None
NoneId == 0

\* Entry(title=..., content=..., published=...): slug unset, timestamp default
NewEntry(title, content, published, now) ==
  [id |-> NoneId, title |-> title, slug |-> <<>>, content |-> content,
   published |-> published, timestamp |-> now]

\* Entry.get(Entry.id == id): the stored row as an instance
LoadEntry(id) ==
  [id |-> id, title |-> entries[id].title, slug |-> entries[id].slug,
   content |-> entries[id].content, published |-> entries[id].published,
   timestamp |-> entries[id].timestamp]

\* the row an instance is written as
RowOf(self) ==
  [title |-> self.title, slug |-> self.slug, content |-> self.content,
   published |-> self.published, timestamp |-> self.timestamp]

\* the slug derived from the title on every save
WithSlugAlways(self) == [self EXCEPT !.slug = Slugify(self.title)]

\* if not self.slug: self.slug = re.sub('[^\w]+', '-', self.title.lower())
WithSlug(self) ==
  IF self.slug = <<>> THEN [self EXCEPT !.slug = Slugify(self.title)] ELSE self

\* the slug column without its unique index
SlugTakenNever(slug, id) == FALSE

\* slug = CharField(unique=True): another row already holds the slug
SlugTaken(slug, id) == \E i \in Ids : i # id /\ entries[i].slug = slug

\* id the row of an instance gets: the next rowid for an insert
RowId(self) == IF self.id = NoneId THEN Len(entries) + 1 ELSE self.id

\* super(Entry, self).save(): INSERT for a new instance, UPDATE by id otherwise
EntryWrite(self) ==
  IF self.id = NoneId THEN Append(entries, RowOf(self))
  ELSE [entries EXCEPT ![self.id] = RowOf(self)]

\* FTSEntry.get(FTSEntry.entry_id == self.id): a document of the entry, or
\* DoesNotExist (0); which one of several rows is returned is not specified
LookupChoices(id) == IF DocsOf(id) = {} THEN {0} ELSE DocsOf(id)

\* the index write with force_insert always set
IndexWriteAlwaysInsert(id, text, doc) ==
  Append(fts, [entry_id |-> id, content |-> text])

\* update_search_index that never reaches fts_entry.save
IndexWriteSkipped(id, text, doc) == fts

\* fts_entry.content = ...; fts_entry.save(force_insert=force_insert)
IndexWrite(id, text, doc) ==
  IF doc = 0 THEN Append(fts, [entry_id |-> id, content |-> text])
  ELSE [fts EXCEPT ![doc].content = text]

\* request.form.get('published') or False, stored in a BooleanField
Truthy(s) == s # <<>>

\* Entry.save with the index updated before the row write is known to have
\* succeeded
DoSaveIndexAnyway(self0, fts_fails, resp) ==
  LET self == WithSlug(self0)
      id == RowId(self)
  IN /\ \E doc \in LookupChoices(id) :
          fts' = IndexWrite(id, JoinNl(self.title, self.content), doc)
     /\ IF SlugTaken(self.slug, id)
        THEN /\ UNCHANGED entries
             /\ last' = [resp EXCEPT !.status = "500", !.err = "IntegrityError"]
        ELSE /\ entries' = EntryWrite(self)
             /\ last' = [resp EXCEPT !.id = id]

\* Entry.save as one uninterrupted call.  fts_fails is the store's answer to
\* the FTSEntry write.  resp is the response the view gives when save returns.
DoSave(self0, fts_fails, resp) ==
  LET self == WithSlug(self0)
      id == RowId(self)
  IN IF SlugTaken(self.slug, id)
     THEN /\ UNCHANGED <<entries, fts>>
          /\ last' = [resp EXCEPT !.status = "500", !.err = "IntegrityError"]
     ELSE /\ entries' = EntryWrite(self)
          /\ IF fts_fails
             THEN /\ fts' = fts
                  /\ last' = [resp EXCEPT !.status = "500", !.err = "IndexSyncFailure", !.id = id]
             ELSE /\ \E doc \in LookupChoices(id) :
                       fts' = IndexWrite(id, JoinNl(self.title, self.content), doc)
                  /\ last' = [resp EXCEPT !.id = id]

\* direct call of Entry.save on a stored Entry whose attributes the caller
\* has set (the call the edit view is written to make)
EntrySave(id, title, content, published, clear_slug, fts_fails) ==
  /\ id \in Ids
  /\ LET loaded == LoadEntry(id)
         self == [loaded EXCEPT !.title = title, !.content = content,
                                !.published = published,
                                !.slug = IF clear_slug THEN <<>> ELSE @]
     IN DoSave(self, fts_fails,
               [Resp("save", "", "ok") EXCEPT !.cleared = clear_slug])
  /\ UNCHANGED <<logged_in, clock, procs>>

\* ------------------------------------------------------------------ queries
\* the public query without its where clause
PublicUnfiltered == Ids

\* Entry.select().where(Entry.published == True)
Public == {i \in Ids : entries[i].published = TRUE}

\* Entry.select().where(Entry.published == False)
Drafts == {i \in Ids : entries[i].published = FALSE}

\* a row of a select on Entry
EntryRow(i) ==
  [docid |-> 0, doc_content |-> <<>>, entry_id |-> i, title |-> entries[i].title,
   slug |-> entries[i].slug, content |-> entries[i].content,
   published |-> entries[i].published, timestamp |-> entries[i].timestamp]

\* a row of FTSEntry joined to Entry on FTSEntry.entry_id == Entry.id
JoinRow(d) ==
  [EntryRow(fts[d].entry_id) EXCEPT !.docid = d, !.doc_content = fts[d].content]

\* the orders a result set can be returned in
Perms(S) ==
  {s \in [1..Cardinality(S) -> S] : \A i, j \in DOMAIN s : i # j => s[i] # s[j]}

\* .order_by(Entry.timestamp.desc()): equal timestamps come in any order
OrderByTimestampDesc(S) ==
  {s \in Perms(S) :
     \A i, j \in DOMAIN s : i < j => entries[s[i]].timestamp >= entries[s[j]].timestamp}

\* the search without the published restriction of the join
SearchUnpublishedToo(query) ==
  LET words == Words(query)
  IN IF words = <<>>
     THEN {}
     ELSE {d \in DocIds :
             /\ fts[d].entry_id \in Ids
             /\ FtsMatch(fts[d].content, JoinSpace(words))}

\* the search without the empty-query guard: no terms, no match restriction
SearchNoGuard(query) ==
  LET words == Words(query)
  IN {d \in DocIds :
        /\ fts[d].entry_id \in Ids
        /\ entries[fts[d].entry_id].published = TRUE
        /\ (words = <<>> \/ FtsMatch(fts[d].content, JoinSpace(words)))}

\* Entry.search(query): the documents selected.  The order by rank is left
\* open: any order of the selected rows is a possible result.
Search(query) ==
  LET words == Words(query)
  IN IF words = <<>>
     THEN {}     \* Entry.select().where(Entry.id == 0)
     ELSE {d \in DocIds :
             /\ fts[d].entry_id \in Ids
             /\ entries[fts[d].entry_id].published = TRUE
             /\ FtsMatch(fts[d].content, JoinSpace(words))}

\* -------------------------------------------------------------------- views
\* the views without the login gate
LoginNotRequired(session_logged_in) == TRUE

\* login_required: the wrapped view runs only with session['logged_in']
LoginRequired(session_logged_in) == session_logged_in

\* the form check that only looks at the title
FormValidTitleOnly(title, content) == title # <<>>

\* request.form.get('title') and request.form.get('content')
FormValid(title, content) == title # <<>> /\ content # <<>>

\* the login view without the comparison to the configured password
LoginAnyPassword(method, password) ==
  /\ IF method = "POST" /\ password # ""
     THEN /\ logged_in' = TRUE
          /\ last' = [Resp("login", method, "redirect_next") EXCEPT !.password = password]
     ELSE /\ UNCHANGED logged_in
          /\ last' = [Resp("login", method, "200") EXCEPT !.password = password]
  /\ UNCHANGED <<entries, fts, clock, procs>>

\* @app.route('/login/')
Login(method, password) ==
  /\ IF method = "POST" /\ password # ""
     THEN IF password = ADMIN_PASSWORD
          THEN /\ logged_in' = TRUE
               /\ last' = [Resp("login", method, "redirect_next") EXCEPT !.password = password]
          ELSE /\ UNCHANGED logged_in
               /\ last' = [Resp("login", method, "200") EXCEPT !.password = password]
     ELSE /\ UNCHANGED logged_in
          /\ last' = [Resp("login", method, "200") EXCEPT !.password = password]
  /\ UNCHANGED <<entries, fts, clock, procs>>

\* @app.route('/logout/')
Logout(method) ==
  /\ IF method = "POST"
     THEN /\ logged_in' = FALSE      \* session.clear()
          /\ last' = Resp("logout", method, "redirect_login")
     ELSE /\ UNCHANGED logged_in
          /\ last' = Resp("logout", method, "200")
  /\ UNCHANGED <<entries, fts, clock, procs>>

\* @app.route('/'): rows is the query handed to object_list
Index(has_q, q) ==
  /\ IF has_q /\ q # <<>>       \* if search_query:
     THEN \E s \in Perms(Search(q)) :
            last' = [Resp("index", "GET", "200") EXCEPT !.has_q = has_q, !.q = q,
                                                        !.rows = [i \in DOMAIN s |-> JoinRow(s[i])]]
     ELSE \E s \in OrderByTimestampDesc(Public) :
            last' = [Resp("index", "GET", "200") EXCEPT !.has_q = has_q, !.q = q,
                                                        !.rows = [i \in DOMAIN s |-> EntryRow(s[i])]]
  /\ UNCHANGED <<entries, fts, logged_in, clock, procs>>

\* @app.route('/drafts/'): Entry.drafts is not called, so .order_by raises
DraftsView ==
  /\ IF LoginRequired(logged_in)
     THEN last' = [Resp("drafts", "GET", "500") EXCEPT !.err = "AttributeError"]
     ELSE last' = Resp("drafts", "GET", "redirect_login")
  /\ UNCHANGED <<entries, fts, logged_in, clock, procs>>

\* @app.route('/create/')
Create(method, title, content, published, fts_fails) ==
  LET req == [Resp("create", method, "200") EXCEPT !.missing = (title = <<>> \/ content = <<>>)]
  IN
  /\ IF ~LoginRequired(logged_in)
     THEN /\ last' = [req EXCEPT !.status = "redirect_login"]
          /\ UNCHANGED <<entries, fts>>
     ELSE IF method # "POST"
     THEN /\ last' = [req EXCEPT !.status = "500", !.err = "NoResponse"]
          /\ UNCHANGED <<entries, fts>>
     ELSE IF ~FormValid(title, content)
     THEN /\ last' = req
          /\ UNCHANGED <<entries, fts>>
     ELSE /\ Len(entries) < MaxEntries
          /\ DoSave(NewEntry(title, content, Truthy(published), clock), fts_fails,
                    [req EXCEPT !.status = IF Truthy(published) THEN "redirect_detail"
                                                                ELSE "redirect_edit"])
  /\ UNCHANGED <<logged_in, clock, procs>>

\* @app.route('/<slug>/edit/'): the name entry is never bound, so every path
\* of the view body raises NameError before or instead of entry.save()
Edit(method, title, content) ==
  LET req == [Resp("edit", method, "200") EXCEPT !.missing = (title = <<>> \/ content = <<>>)]
  IN
  /\ IF ~LoginRequired(logged_in)
     THEN last' = [req EXCEPT !.status = "redirect_login"]
     ELSE last' = [req EXCEPT !.status = "500", !.err = "NameError"]
  /\ UNCHANGED <<entries, fts, logged_in, clock, procs>>

\* slugs requested from the detail view
SlugInputs == {<<"a">>, <<"b">>, <<"z">>}

\* @app.route('/<slug>/'): get_object_or_404, then render_templates (an
\* unbound name) raises NameError
Detail(slug) ==
  LET query == IF logged_in THEN Ids ELSE Public
      found == {i \in query : entries[i].slug = slug}
  IN
  /\ IF found = {}
     THEN last' = [Resp("detail", "GET", "404") EXCEPT !.q = slug]
     ELSE \E i \in found :
            last' = [Resp("detail", "GET", "500") EXCEPT !.q = slug, !.id = i,
                                                        !.err = "NameError"]
  /\ UNCHANGED <<entries, fts, logged_in, clock, procs>>

\* datetime.datetime.now moves on between requests.  The clock is read only
\* as the timestamp default of a new Entry, so a new reading is taken only
\* once the current one is the timestamp of some row.
Tick ==
  /\ \E i \in Ids : entries[i].timestamp = clock
  /\ clock' = clock + 1
  /\ UNCHANGED <<entries, fts, logged_in, last, procs>>

\* A GET carries no form: its fields are all missing.
Next ==
  \/ \E pw \in Passwords : Login("POST", pw)
  \/ Login("GET", "")
  \/ \E m \in Methods : Logout(m)
  \/ \E q \in QueryInputs : Index(TRUE, q)
  \/ Index(FALSE, <<>>)
  \/ DraftsView
  \/ \E t \in TitleInputs, c \in ContentInputs, pub \in PublishedInputs :
        Create("POST", t, c, pub, FALSE)
  \/ Create("GET", <<>>, <<>>, <<>>, FALSE)
  \/ \E t \in {<<>>, <<"a">>}, c \in {<<>>, <<"x">>} : Edit("POST", t, c)
  \/ Edit("GET", <<>>, <<>>)
  \/ \E slug \in SlugInputs : Detail(slug)
  \/ \E id \in Ids, t \in TitleInputs \ {<<>>}, c \in ContentInputs \ {<<>>},
        pub \in BOOLEAN, cs \in BOOLEAN : EntrySave(id, t, c, pub, cs, FALSE)
  \/ Tick

Spec == Init /\ [][Next]_vars

\* -------------------------------------------- saves whose index write fails
\* The view and Entry.save calls of Next that write, with the store free to
\* refuse the FTSEntry write (fts_fails).
NextFail ==
  \/ \E pw \in Passwords : Login("POST", pw)
  \/ \E t \in TitleInputs, c \in ContentInputs, ff \in BOOLEAN :
        Create("POST", t, c, <<"y">>, ff)
  \/ \E id \in Ids, t \in TitleInputs \ {<<>>}, c \in ContentInputs \ {<<>>},
        ff \in BOOLEAN : EntrySave(id, t, c, TRUE, FALSE, ff)

SpecFail == Init /\ [][NextFail]_vars

\* ------------------------------------------------------- slug derivation
\* the titles new Entries are saved with: every non-empty string over
\* SlugAlphabet up to MaxTitleLen, and the title "Hello World"
SlugAlphabet == {"a", "B", "1", "_", " ", "!", "-"}
HelloWorld == <<"H", "e", "l", "l", "o", " ", "W", "o", "r", "l", "d">>
SlugTitles == UNION {[1..k -> SlugAlphabet] : k \in 1..MaxTitleLen} \cup {HelloWorld}

\* Entry.create(title=..., content=..., published=...) on the empty table
CreateEntry(title, content, published) ==
  /\ entries = <<>>
  /\ DoSave(NewEntry(title, content, published, clock), FALSE, Resp("save", "", "ok"))
  /\ UNCHANGED <<logged_in, clock, procs>>

NextSlug == \E t \in SlugTitles : CreateEntry(t, <<"x">>, TRUE)

SpecSlug == Init /\ [][NextSlug]_vars

\* ------------------------------------------------- concurrent request threads
\* Each request has its own connection and every statement commits on its
\* own, so the statements of Entry.save calls of different threads interleave.

\* Entry.save up to super().save(): thread p writes the Entry row
SaveEntryRow(p, self0) ==
  LET self == WithSlug(self0)
      id == RowId(self)
  IN /\ procs[p].pc = "idle"
     /\ IF SlugTaken(self.slug, id)
        THEN /\ UNCHANGED <<entries, procs>>
             /\ last' = [Resp("save", "", "500") EXCEPT !.err = "IntegrityError"]
        ELSE /\ entries' = EntryWrite(self)
             /\ procs' = [procs EXCEPT ![p] = [pc |-> "entry_saved", id |-> id,
                                               title |-> self.title,
                                               content |-> self.content, doc |-> 0]]
             /\ last' = [Resp("save", "", "entry_saved") EXCEPT !.id = id]
     /\ UNCHANGED <<fts, logged_in, clock>>

\* Entry.create(...) in thread p
ConcCreate(p, title, content, published) ==
  /\ Len(entries) < MaxConcEntries
  /\ SaveEntryRow(p, NewEntry(title, content, published, clock))

\* entry = Entry.get(id); entry.content = content; entry.save() in thread p
ConcUpdate(p, id, content) ==
  /\ id \in Ids
  /\ SaveEntryRow(p, [LoadEntry(id) EXCEPT !.content = content])

\* update_search_index, the try/except/else: FTSEntry.get decides
\* force_insert
IndexLookup(p) ==
  /\ procs[p].pc = "entry_saved"
  /\ \E doc \in LookupChoices(procs[p].id) :
       procs' = [procs EXCEPT ![p].pc = "looked_up", ![p].doc = doc]
  /\ last' = [Resp("save", "", "looked_up") EXCEPT !.id = procs[p].id]
  /\ UNCHANGED <<entries, fts, logged_in, clock>>

\* update_search_index, fts_entry.save(force_insert=force_insert)
IndexSave(p) ==
  /\ procs[p].pc = "looked_up"
  /\ fts' = IndexWrite(procs[p].id, JoinNl(procs[p].title, procs[p].content),
                       procs[p].doc)
  /\ procs' = [procs EXCEPT ![p] = IdleProc]
  /\ last' = [Resp("save", "", "ok") EXCEPT !.id = procs[p].id]
  /\ UNCHANGED <<entries, logged_in, clock>>

NextConc ==
  \/ \E p \in 1..NumProcs, c \in ContentInputs \ {<<>>} :
        ConcCreate(p, <<"a">>, c, TRUE)
  \/ \E p \in 1..NumProcs, id \in Ids, c \in ContentInputs \ {<<>>} :
        ConcUpdate(p, id, c)
  \/ \E p \in 1..NumProcs : IndexLookup(p)
  \/ \E p \in 1..NumProcs : IndexSave(p)
  \/ Index(TRUE, <<"x">>)
  \/ Index(FALSE, <<>>)

SpecConc == Init /\ [][NextConc]_vars

\* ------------------------------------------------------------- properties
GatedOps == {"drafts", "create", "edit"}

\* every character of q is whitespace (the empty query included)
IsBlank(q) == \A i \in DOMAIN q : q[i] \in SpaceChars

\* the last request was index in search mode / in listing mode
SearchMode == last.op = "index" /\ last.has_q /\ last.q # <<>>
ListingMode == last.op = "index" /\ ~(last.has_q /\ last.q # <<>>)

RowIds(rows) == {rows[i].entry_id : i \in DOMAIN rows}

\* C1: after any sequence of successful saves run one after another, every
\* saved Entry has exactly one SearchDocument, and its content is the
\* Entry's current title, a newline, and its current content.
C1_OneCurrentDocPerEntry ==
  \A id \in Ids :
    \E d \in DocIds :
      /\ DocsOf(id) = {d}
      /\ fts[d].content = JoinNl(entries[id].title, entries[id].content)

\* entry 1 was saved again after entry 2 was created, with a changed title
C1_Witness ==
  /\ last.op = "save" /\ last.status = "ok" /\ last.id = 1
  /\ Len(entries) = 2
  /\ entries[1].slug # Slugify(entries[1].title)
  /\ entries[1].content = <<"y">>

\* C2: after a save that failed in the SearchDocument write, the Entry row is
\* not left with a missing or outdated SearchDocument.
C2_FailedSaveNoDivergence ==
  (last.err = "IndexSyncFailure" /\ last.id \in Ids) =>
    \E d \in DocsOf(last.id) :
      fts[d].content = JoinNl(entries[last.id].title, entries[last.id].content)

\* C3: every Entry a reader is handed has, at the moment of the read, a
\* SearchDocument with the content of the Entry row read.
C3_ReaderSeesEntryInSync ==
  last.op = "index" =>
    \A i \in DOMAIN last.rows :
      \E d \in DocsOf(last.rows[i].entry_id) :
        fts[d].content = JoinNl(last.rows[i].title, last.rows[i].content)

\* C4: under any interleaving of saves, an entry_id has at most one
\* SearchDocument.
C4_AtMostOneDoc ==
  \A id \in Ids : Cardinality(DocsOf(id)) <= 1

\* C5: a search never returns an Entry with published = false, whoever asks
\* and whatever the query matches.
C5_SearchOnlyPublished ==
  /\ \A q \in QueryInputs : \A d \in Search(q) : entries[fts[d].entry_id].published = TRUE
  /\ SearchMode => \A i \in DOMAIN last.rows : last.rows[i].published = TRUE

\* a logged-in search for a term that an unpublished entry's document holds
C5_Witness ==
  /\ SearchMode /\ last.q = <<"x">> /\ logged_in
  /\ \E id \in Ids :
       /\ entries[id].published = FALSE
       /\ \E d \in DocsOf(id) : FtsMatch(fts[d].content, last.q)

\* C6 as stated: a search request with an empty or whitespace-only query
\* returns no rows.
C6_BlankQueryNoRows ==
  (last.op = "index" /\ last.has_q /\ IsBlank(last.q)) => last.rows = <<>>

\* C6 amended: Entry.search of an empty or whitespace-only query selects
\* nothing, and an index request with a non-empty whitespace-only q returns
\* no rows.
C6_BlankSearchNoRows ==
  /\ \A q \in QueryInputs : IsBlank(q) => Search(q) = {}
  /\ (SearchMode /\ IsBlank(last.q)) => last.rows = <<>>

\* a whitespace-only search while a published entry exists
C6_Witness ==
  /\ SearchMode /\ last.q = <<"\t", " ">>
  /\ Public # {}
  /\ last.rows = <<>>

\* C7: no two stored Entries share a slug.
C7_SlugUnique ==
  \A i, j \in Ids : i # j => entries[i].slug # entries[j].slug

\* a create whose title derives the slug of a stored entry was refused
C7_Witness ==
  /\ last.op = "create" /\ last.err = "IntegrityError"
  /\ \E i \in Ids : entries[i].slug = <<"a">>
  /\ Len(entries) = 1

C8_WitnessDraft ==
  /\ ListingMode
  /\ Len(last.rows) = 1
  /\ Drafts # {}

\* C9: a create or edit request without a title or without content changes
\* neither the Entry table nor the FTSEntry table.
C9_MissingFieldNoWrite ==
  [][(last'.op \in {"create", "edit"} /\ last'.missing)
       => (entries' = entries /\ fts' = fts)]_vars

\* a logged-in create POST without title or content, answered with the form
C9_Witness ==
  /\ last.op = "create" /\ last.method = "POST" /\ last.missing
  /\ logged_in
  /\ last.status = "200"

\* C10: without session['logged_in'], a drafts, create or edit request is
\* answered with the redirect to login, returns no rows and writes nothing.
C10_GateRedirects ==
  [][(~logged_in /\ last'.op \in GatedOps)
       => /\ last'.status = "redirect_login"
          /\ last'.rows = <<>>
          /\ entries' = entries /\ fts' = fts]_vars

\* a complete create POST sent without a login
C10_Witness ==
  /\ ~logged_in
  /\ last.op = "create" /\ last.method = "POST" /\ ~last.missing
  /\ last.status = "redirect_login"

\* C11: for a logged-in caller the drafts listing returns exactly the
\* Entries with published = false, each once, newest first.
C11_DraftListing ==
  (logged_in /\ last.op = "drafts") =>
    /\ last.status = "200"
    /\ RowIds(last.rows) = {i \in Ids : entries[i].published = FALSE}
    /\ Len(last.rows) = Cardinality(RowIds(last.rows))
    /\ \A i, j \in DOMAIN last.rows :
         i < j => last.rows[i].timestamp >= last.rows[j].timestamp

C13_SlugStable ==
  [][\A id \in DOMAIN entries :
       entries'[id].slug # entries[id].slug =>
         /\ last'.op = "save" /\ last'.id = id /\ last'.cleared
         /\ entries'[id].slug = Slugify(entries'[id].title)]_vars

\* a save with the slug kept that left a title deriving another slug
C13_Witness ==
  /\ last.op = "save" /\ last.status = "ok" /\ ~last.cleared
  /\ last.id \in Ids
  /\ entries[last.id].slug # Slugify(entries[last.id].title)

\* the title lower-cased, its word characters kept, and of every maximal
\* run of non-word characters only the first kept, as the separator
ExpectedSlug(title) ==
  LET low == [i \in DOMAIN title |-> LowerChar(title[i])]
      kept == SelectSeq([i \in DOMAIN title |-> i],
                        LAMBDA i : IsWordChar(low[i]) \/ i = 1 \/ IsWordChar(low[i - 1]))
  IN [k \in DOMAIN kept |-> IF IsWordChar(low[kept[k]]) THEN low[kept[k]] ELSE "-"]

\* C14: an Entry with a non-empty title saved with an empty slug gets the
\* title lower-cased with every maximal run of non-word characters replaced
\* by one '-'.
C14_SlugDerivation ==
  \A id \in Ids :
    entries[id].title # <<>> => entries[id].slug = ExpectedSlug(entries[id].title)

\* "Hello World" was saved and got the slug "hello-world"
C14_Witness ==
  /\ last.op = "save" /\ last.status = "ok"
  /\ Len(entries) = 1
  /\ entries[1].title = HelloWorld
  /\ entries[1].slug = <<"h", "e", "l", "l", "o", "-", "w", "o", "r", "l", "d">>

\* a title ending in a run of two non-word characters got one separator
C14_WitnessRun ==
  /\ Len(entries) = 1
  /\ entries[1].title = <<"B", " ", "!">>
  /\ entries[1].slug = <<"b", "-">>

\* C16: a detail request for the slug of an unpublished Entry is answered
\* with 404 without a login, and with the Entry with a login.
C16_DetailOfDraft ==
  \A i \in Ids :
    (last.op = "detail" /\ last.q = entries[i].slug /\ entries[i].published = FALSE)
      => IF logged_in THEN last.status = "200" /\ last.id = i
                      ELSE last.status = "404"

\* C17: session['logged_in'] becomes true only in a login POST with the
\* configured password, and such a POST sets it; it becomes false only in a
\* logout POST, and such a POST clears it; while it is false every gated
\* request is answered with the redirect to login.
C17_LoginFlag ==
  [][/\ (~logged_in /\ logged_in') =>
          (last'.op = "login" /\ last'.method = "POST" /\ last'.password = "secret")
     /\ (last'.op = "login" /\ last'.method = "POST" /\ last'.password = "secret")
          => logged_in'
     /\ (logged_in /\ ~logged_in') => (last'.op = "logout" /\ last'.method = "POST")
     /\ (last'.op = "logout" /\ last'.method = "POST") => ~logged_in'
     /\ (~logged_in' /\ last'.op \in GatedOps) => last'.status = "redirect_login"]_vars

\* after a login and a logout POST, a create request is sent to login
C17_Witness ==
  /\ ~logged_in
  /\ entries # <<>>
  /\ last.op = "create" /\ last.status = "redirect_login"

\* a logout GET left the session logged in
C17_WitnessLogoutGet ==
  /\ logged_in
  /\ last.op = "logout" /\ last.method = "GET"

\* C18: a save whose Entry row write fails on the unique slug changes neither
\* the Entry table nor the FTSEntry table.
C18_FailedRowWriteNoIndex ==
  [][last'.err = "IntegrityError" => (entries' = entries /\ fts' = fts)]_vars

\* a save of entry 2 with its slug cleared and a title deriving the slug of
\* entry 1 was refused
C18_Witness ==
  /\ last.op = "save" /\ last.err = "IntegrityError" /\ last.cleared
  /\ Len(entries) = 2 /\ Len(fts) = 2

====
